---------------------------- MODULE Spec2Model ----------------------------
(***************************************************************************)
(* Suggestion answer state machine and notification dispatch of the        *)
(* school suggestion box (app/routers/public.py, app/routers/admin.py,     *)
(* app/core/email.py, app/schemas/suggestion.py).                          *)
(*                                                                         *)
(* Every HTTP handler runs in its own worker thread with its own database  *)
(* session, so a handler is a sequence of steps separated by its database  *)
(* round trips (query, commit, refresh) and its outbound sends; steps of   *)
(* different requests interleave freely.                                   *)
(*                                                                         *)
(* Text is a sequence of one-character strings.  A nullable column or      *)
(* local is <<>> for None and <<v>> for the value v.                       *)
(***************************************************************************)
EXTENDS Integers, Sequences, FiniteSets, Bags, TLC

-----------------------------------------------------------------------------
(* Bounds of the model *)

\* number of rows of the push subscription table
NumSubs == 2
\* values of the clock
MaxClock == 1

-----------------------------------------------------------------------------
(* Text *)

None == <<>>
Some(v) == <<v>>

\* the whitespace that str.strip() removes, of the characters the model uses
IsSpace(c) == c \in {" ", "\n"}

RECURSIVE lstrip(_)
lstrip(t) == IF t # <<>> /\ IsSpace(Head(t)) THEN lstrip(Tail(t)) ELSE t

RECURSIVE rstrip(_)
rstrip(t) ==
    IF t # <<>> /\ IsSpace(t[Len(t)]) THEN rstrip(SubSeq(t, 1, Len(t) - 1)) ELSE t

\* str.strip()
strip(t) == rstrip(lstrip(t))

\* str.lower(), on the letters the model uses
LowerChar(c) == CASE c = "A" -> "a" [] c = "B" -> "b" [] OTHER -> c
lower(t) == [i \in 1..Len(t) |-> LowerChar(t[i])]

Contains(t, c) == \E i \in 1..Len(t) : t[i] = c

\* index of the last occurrence of c in t (t contains c)
LastIndex(t, c) == CHOOSE i \in 1..Len(t) : t[i] = c /\ \A j \in (i+1)..Len(t) : t[j] # c

-----------------------------------------------------------------------------
(* Request schemas: app/schemas/suggestion.py *)

GradeMin == 1
GradeMax == 3
TitleMinLength == 2
TitleMaxLength == 140
ContentMinLength == 5
ContentMaxLength == 10000
AnswerMinLength == 1
AnswerMaxLength == 10000
EmailMinLength == 5
EmailMaxLength == 320

\* _validate_email: None when it raises ValueError, else the normalised address
validate_email(value) ==
    LET email == lower(strip(value)) IN
    IF ~Contains(email, "@") \/ Head(email) = "@" \/ email[Len(email)] = "@"
    THEN None
    ELSE LET at == LastIndex(email, "@")
             local == SubSeq(email, 1, at - 1)
             domain == SubSeq(email, at + 1, Len(email))
         IN  IF local = <<>> \/ ~Contains(domain, ".")
                \/ Head(domain) = "." \/ domain[Len(domain)] = "."
             THEN None
             ELSE IF Len(email) > EmailMaxLength THEN None ELSE Some(email)

\* SuggestionCreateIn accepts the body
SuggestionCreateIn(grade, title, content) ==
    /\ grade >= GradeMin /\ grade <= GradeMax
    /\ Len(title) >= TitleMinLength /\ Len(title) <= TitleMaxLength
    /\ Len(content) >= ContentMinLength /\ Len(content) <= ContentMaxLength

\* SuggestionUpdateIn accepts the body (every field is optional)
SuggestionUpdateIn(grade, title, content) ==
    /\ grade # None => grade[1] >= GradeMin /\ grade[1] <= GradeMax
    /\ title # None => Len(title[1]) >= TitleMinLength /\ Len(title[1]) <= TitleMaxLength
    /\ content # None =>
          Len(content[1]) >= ContentMinLength /\ Len(content[1]) <= ContentMaxLength

\* SuggestionAnswerIn accepts the body
SuggestionAnswerIn(answer) ==
    Len(answer) >= AnswerMinLength /\ Len(answer) <= AnswerMaxLength

\* SuggestionNotificationEmailIn: None when rejected, else the validated value
SuggestionNotificationEmailIn(email) ==
    IF Len(email) >= EmailMinLength /\ Len(email) <= EmailMaxLength
    THEN validate_email(email) ELSE None

-----------------------------------------------------------------------------
(* Inputs the requests are drawn from *)

StudentKeys == {"k1", "k2"}
\* the student who submits
Submitters == {"k1"}
GradeInputs == {0, 2}
TitleInputs == {<<"a", "b">>, <<" ", "c", "d">>}
ContentInputs == {<<" ", "t", "e", "x", "t", "s">>}
AnswerInputs == {<<>>, <<" ">>, <<"x">>, <<" ", "x", " ">>}
EmailInputs == { <<" ", "A", "@", "b", ".", "c">>,
                 <<"a", "\n", "@", "b", ".", "c">>,
                 <<"a", "@", "b", "c", ".">>,
                 <<"a", "@", "b", ".">> }
\* the primary keys of table suggestions that the model hands out
SuggestionIds == {1}
\* the worker threads that handle requests
Workers == {"w1", "w2"}
SubIds == 1..NumSubs
\* what datetime.now(timezone.utc) returns: the wall clock, which may be set back
Clock == 0..MaxClock
Opt(S) == {None} \cup {Some(v) : v \in S}

-----------------------------------------------------------------------------
(* Configuration: app/core/config.py.  "" is the unset default. *)

\* values of (VAPID_PRIVATE_KEY, VAPID_PUBLIC_KEY): "seed" loads as a key,
\* "bad" is a configured string that the key loader rejects
Config(private, public, host, from) ==
    [VAPID_PRIVATE_KEY |-> private, VAPID_PUBLIC_KEY |-> public,
     SMTP_HOST |-> host, SMTP_FROM_EMAIL |-> from]

\* the configurations of the model
Settings ==
    { Config("seed", "pub", "smtp.host", "from@school"),
      Config("bad", "pub", "", "from@school"),
      Config("", "pub", "", "from@school"),
      Config("seed", "", "smtp.host", "") }

\* the owner columns of a push subscription: exactly one of them is set
SubOwners ==
    { [student_key |-> Some(k), admin_id |-> None] : k \in StudentKeys }
      \cup { [student_key |-> None, admin_id |-> Some(1)] }

\* the order of the owners in the tables of the model
Rank(owner) ==
    IF owner.admin_id # None THEN 0 ELSE IF owner.student_key = Some("k1") THEN 1 ELSE 2

\* the tables of push subscriptions: the ids are labels and a query selects the
\* rows of one owner, so of the tables that differ by a renaming of the ids
\* the model takes the one that lists the owners in order
Tables ==
    {t \in [SubIds -> SubOwners] : \A i, j \in SubIds : i < j => Rank(t[i]) <= Rank(t[j])}

-----------------------------------------------------------------------------
(* State *)

VARIABLES
    settings,     \* the process-wide settings object
    subs,         \* table push_subscriptions: id -> owner columns
    store,        \* table suggestions: id -> row, for the rows that exist
    nextId,       \* next primary key of table suggestions
    req,          \* the bag of requests in flight: their position and locals
    response,     \* the HTTP response the last step produced, if it produced one
    pushed,       \* history: per suggestion, the student pushes attempted
    mailed,       \* history: per suggestion, the answer emails attempted
    adminPushed,  \* history: per suggestion, the admin pushes attempted
    call          \* the last direct call of a sender or helper: its input and result

vars ==
    <<settings, subs, store, nextId, req, response, pushed, mailed, adminPushed, call>>

\* no sender or helper has been called directly
NoCall == [fn |-> "none", arg |-> <<>>, result |-> <<>>]

\* the columns no handler has assigned
Clean ==
    [grade |-> None, title |-> None, content |-> None, notification_email |-> None,
     answer |-> None, status |-> None, answered_at |-> None]

\* a request before its handler has run
IdleReq ==
    [kind |-> "none", pc |-> "idle", id |-> 0, key |-> "", s |-> None, dirty |-> Clean,
     old_status |-> "", committed |-> FALSE, list |-> <<>>, idx |-> 0, attempts |-> <<>>]

\* the outcome of a request as its client sees it, with the status the handler
\* had read (old_status, of the answer handler)
Response(rec, code) ==
    [kind |-> rec.kind, id |-> rec.id, key |-> rec.key, code |-> code,
     old_status |-> rec.old_status]

NoResponse == Response(IdleReq, 0)

\* the requests in flight
InFlight == BagToSet(req)

\* a response is on its way to its client
Responding == response # NoResponse

\* a request is in its notification path, which reads only its own locals and
\* the subscription table
Sending == \E rec \in InFlight : rec.pc \in {"bg", "bg_push", "fan", "fan_push", "email"}

\* the steps that read or write table suggestions are scheduled between the
\* notification paths, as these commute with them
Ready == ~Responding /\ ~Sending

\* a worker thread is free to take a request
Free == BagCardinality(req) < Cardinality(Workers)

\* a request of the kind arrives
Arrive(kind, id, key) == [IdleReq EXCEPT !.kind = kind, !.id = id, !.key = key]

One(rec) == SetToBag({rec})

\* a request starts with the given locals, without a response yet
Start(rec) ==
    /\ req' = req (+) One(rec)
    /\ response' = NoResponse

\* a request is answered by the first step of its handler
Reject(rec, code) ==
    /\ req' = req
    /\ response' = Response(rec, code)

\* the request old moves on with the locals rec, without a response yet
Step(old, rec) ==
    /\ req' = (req (-) One(old)) (+) One(rec)
    /\ response' = NoResponse

\* the handler of the request returns or raises: the response code goes out
Finish(old, code) ==
    /\ req' = req (-) One(old)
    /\ response' = Response(old, code)

\* the handler returns and a background task of the request goes on
Respond(old, rec, code) ==
    /\ req' = (req (-) One(old)) (+) One(rec)
    /\ response' = Response(rec, code)

\* the background task ends
EndTask(old) ==
    /\ req' = req (-) One(old)
    /\ response' = NoResponse

Init ==
    /\ settings \in Settings
    /\ subs \in Tables
    /\ store = <<>>
    /\ nextId = 1
    /\ req = EmptyBag
    /\ response = NoResponse
    /\ pushed = [i \in SuggestionIds |-> <<>>]
    /\ mailed = [i \in SuggestionIds |-> <<>>]
    /\ adminPushed = [i \in SuggestionIds |-> <<>>]
    /\ call = NoCall

-----------------------------------------------------------------------------
(* The object-relational session *)

\* the row a flush writes: the UPDATE sets the columns whose value changed
Apply(row, d) ==
    [student_key |-> row.student_key,
     grade |-> IF d.grade = None THEN row.grade ELSE d.grade[1],
     title |-> IF d.title = None THEN row.title ELSE d.title[1],
     content |-> IF d.content = None THEN row.content ELSE d.content[1],
     notification_email |->
         IF d.notification_email = None THEN row.notification_email
         ELSE d.notification_email[1],
     answer |-> IF d.answer = None THEN row.answer ELSE d.answer[1],
     status |-> IF d.status = None THEN row.status ELSE d.status[1],
     answered_at |-> IF d.answered_at = None THEN row.answered_at ELSE d.answered_at[1]]

\* a handler that forgets the test of the status
Conflict_never(s) == FALSE

\* the test of the student handlers: if s.status != "pending": raise 409
Conflict(s) == s.status # "pending"

\* an answer handler that notifies on every answer
first_answer_always(old_status) == TRUE

\* the test of the answer handler: if old_status != "answered"
first_answer(old_status) == old_status # "answered"

\* attribute assignment s.col = v: the column is written only on a net change
Assign(old, v) == IF v = old THEN None ELSE Some(v)

\* an answer handler that flips the status of the row
AnswerAssignments_toggle(s, answer, t) ==
    [Clean EXCEPT !.answer = Assign(s.answer, Some(strip(answer))),
                  !.status = Assign(s.status, IF s.status = "answered" THEN "pending"
                                              ELSE "answered"),
                  !.answered_at = Assign(s.answered_at, Some(t))]

\* an answer handler that does not stamp the answer
AnswerAssignments_unstamped(s, answer, t) ==
    [Clean EXCEPT !.answer = Assign(s.answer, Some(strip(answer))),
                  !.status = Assign(s.status, "answered")]

\* the assignments of the answer handler to the loaded row s:
\* s.answer = body.answer.strip(); s.status = "answered"; s.answered_at = now
AnswerAssignments(s, answer, t) ==
    [Clean EXCEPT !.answer = Assign(s.answer, Some(strip(answer))),
                  !.status = Assign(s.status, "answered"),
                  !.answered_at = Assign(s.answered_at, Some(t))]

Exists(id) == id \in DOMAIN store

\* a delete that is never committed
Without_uncommitted(id) == store

\* db.delete(s); db.commit(): the row is removed (a row already gone only warns)
Without(id) == [i \in (DOMAIN store) \ {id} |-> store[i]]

\* db.add(s); db.commit() of a new row
With(id, row) == [i \in (DOMAIN store) \cup {id} |-> IF i = id THEN row ELSE store[i]]

\* the flush of db.commit() fails (StaleDataError): an UPDATE that matches no row
Stale(rec) == rec.dirty # Clean /\ ~Exists(rec.id)

\* a handler that goes on without db.commit()
Commit_unflushed(rec) ==
    /\ UNCHANGED store
    /\ Step(rec, [rec EXCEPT !.pc = "refresh", !.committed = TRUE, !.dirty = Clean])

\* db.add(s); db.commit() of a loaded row with its assigned columns
Commit(rec) ==
    IF Stale(rec)
    THEN /\ Finish(rec, 500)
         /\ UNCHANGED store
    ELSE /\ store' = IF rec.dirty = Clean THEN store
                     ELSE [store EXCEPT ![rec.id] = Apply(@, rec.dirty)]
         /\ Step(rec, [rec EXCEPT !.pc = "refresh", !.committed = TRUE, !.dirty = Clean])

\* db.refresh(s); return s
Refresh(rec) ==
    IF Exists(rec.id) THEN Finish(rec, 200) ELSE Finish(rec, 500)

-----------------------------------------------------------------------------
(* Senders *)

\* columns of model Suggestion that the constructor call leaves to their defaults
ColumnDefaults == [answer |-> None, answered_at |-> None, notification_email |-> None]

\* Suggestion(student_key=..., grade=..., title=..., content=..., status=...)
Suggestion(student_key, grade, title, content, status) ==
    [student_key |-> student_key, grade |-> grade, title |-> title, content |-> content,
     status |-> status, answer |-> ColumnDefaults.answer,
     answered_at |-> ColumnDefaults.answered_at,
     notification_email |-> ColumnDefaults.notification_email]

\* a text of n characters c
Rep(c, n) == [i \in 1..n |-> c]

\* str.startswith(prefix)
startswith(t, prefix) == Len(t) >= Len(prefix) /\ SubSeq(t, 1, Len(prefix)) = prefix

\* str.replace(a, b), for single characters
replace(t, a, b) == [i \in 1..Len(t) |-> IF t[i] = a THEN b ELSE t[i]]

\* the base64 alphabet of binascii, in the order of its values 0..63
B64Alphabet ==
    <<"A", "B", "C", "D", "E", "F", "G", "H", "I", "J", "K", "L", "M", "N", "O", "P",
      "Q", "R", "S", "T", "U", "V", "W", "X", "Y", "Z", "a", "b", "c", "d", "e", "f",
      "g", "h", "i", "j", "k", "l", "m", "n", "o", "p", "q", "r", "s", "t", "u", "v",
      "w", "x", "y", "z", "0", "1", "2", "3", "4", "5", "6", "7", "8", "9", "+", "/">>

\* table_a2b_base64: the value of a character, 64 for one outside the alphabet
a2b(c) ==
    IF \E v \in 1..64 : B64Alphabet[v] = c
    THEN (CHOOSE v \in 1..64 : B64Alphabet[v] = c) - 1
    ELSE 64

\* binascii.a2b_base64(t), not strict, from position i on: the bytes decoded, or
\* the error raised.  quad is the position in the group of four, left the bits
\* carried over, pads the '=' seen since the last data character
RECURSIVE a2b_base64(_, _, _, _, _, _)
a2b_base64(t, i, quad, left, pads, out) ==
    IF i > Len(t)
    THEN IF quad = 0 THEN [error |-> "", bytes |-> out]
         ELSE IF quad = 1 THEN [error |-> "binascii.Error: 1 more than a multiple of 4",
                                bytes |-> <<>>]
         ELSE [error |-> "binascii.Error: Incorrect padding", bytes |-> <<>>]
    ELSE IF t[i] = "="
         THEN IF quad >= 2 /\ quad + pads + 1 >= 4
              THEN [error |-> "", bytes |-> out]
              ELSE a2b_base64(t, i + 1, quad, left, IF quad >= 2 THEN pads + 1 ELSE pads, out)
         ELSE LET ch == a2b(t[i]) IN
              IF ch >= 64 THEN a2b_base64(t, i + 1, quad, left, pads, out)
              ELSE CASE quad = 0 -> a2b_base64(t, i + 1, 1, ch, 0, out)
                     [] quad = 1 -> a2b_base64(t, i + 1, 2, ch % 16, 0,
                                               Append(out, left * 4 + ch \div 16))
                     [] quad = 2 -> a2b_base64(t, i + 1, 3, ch % 4, 0,
                                               Append(out, left * 16 + ch \div 4))
                     [] quad = 3 -> a2b_base64(t, i + 1, 0, 0, 0,
                                               Append(out, left * 64 + ch))

\* base64.b64decode(t)
b64decode(t) == a2b_base64(t, 1, 0, 0, 0, <<>>)

\* the order of the group of SECP256R1, big-endian
SECP256R1 ==
    <<255, 255, 255, 255, 0, 0, 0, 0,
      255, 255, 255, 255, 255, 255, 255, 255,
      188, 230, 250, 173, 167, 23, 158, 132,
      243, 185, 202, 194, 252, 99, 37, 81>>

\* int.from_bytes(a, "big") < int.from_bytes(b, "big"), for a and b of one length
RECURSIVE Below(_, _)
Below(a, b) ==
    IF a = <<>> THEN FALSE
    ELSE IF Head(a) # Head(b) THEN Head(a) < Head(b)
    ELSE Below(Tail(a), Tail(b))

\* ec.derive_private_key(int.from_bytes(seed, "big"), ec.SECP256R1()): what it can
\* do.  It raises ValueError for a value that is not positive; for a value that
\* is not below the order of the group the library decides
derive_private_key(seed) ==
    IF \A i \in 1..Len(seed) : seed[i] = 0 THEN {"ValueError"}
    ELSE IF Below(seed, SECP256R1) THEN {""}
    ELSE {"", "ValueError"}

\* what serialization.load_pem_private_key can do with a text: it returns the
\* key the text holds, or raises ValueError when the text holds none
load_pem_private_key == {"", "ValueError"}

\* the length of a seed
SeedLength == 32

\* the step _load_vapid_private_key ended at and what it raised ("" when it
\* returned a key)
Loaded(step, raises) == [step |-> step, raises |-> raises]

\* a loader that decodes the key as it is written, without completing the
\* padding
load_vapid_private_key_unpadded(VAPID_PRIVATE_KEY) ==
    LET raw == strip(VAPID_PRIVATE_KEY)
        key_b64 == replace(replace(raw, "-", "+"), "_", "/")
        seed == b64decode(key_b64)
    IN  IF raw = <<>> THEN {Loaded("configured", "RuntimeError")}
        ELSE IF startswith(raw, Rep("-", 5) \o <<"B", "E", "G", "I", "N">>)
        THEN {Loaded("load_pem_private_key", e) : e \in load_pem_private_key}
        ELSE IF seed.error # "" THEN {Loaded("b64decode", seed.error)}
        ELSE IF Len(seed.bytes) # SeedLength THEN {Loaded("length", "ValueError")}
        ELSE {Loaded("derive_private_key", e) : e \in derive_private_key(seed.bytes)}

\* _load_vapid_private_key, of a configured key text: the set of its outcomes
load_vapid_private_key(VAPID_PRIVATE_KEY) ==
    LET raw == strip(VAPID_PRIVATE_KEY)
        key_b64 == replace(replace(raw, "-", "+"), "_", "/")
        padding == 4 - (Len(key_b64) % 4)
        padded == IF padding # 4 THEN key_b64 \o Rep("=", padding) ELSE key_b64
        seed == b64decode(padded)
    IN  IF raw = <<>> THEN {Loaded("configured", "RuntimeError")}
        ELSE IF startswith(raw, Rep("-", 5) \o <<"B", "E", "G", "I", "N">>)
        THEN {Loaded("load_pem_private_key", e) : e \in load_pem_private_key}
        ELSE IF seed.error # "" THEN {Loaded("b64decode", seed.error)}
        ELSE IF Len(seed.bytes) # SeedLength THEN {Loaded("length", "ValueError")}
        ELSE {Loaded("derive_private_key", e) : e \in derive_private_key(seed.bytes)}

\* the key texts the loader is called with
KeyInputs ==
    {<<>>, <<" ">>,
     Rep("-", 5) \o <<"B", "E", "G", "I", "N">> \o Rep("A", 33),
     Rep("-", 5) \o <<"B", "E", "G", "I", "N", "A", "A">>,
     <<" ">> \o Rep("-", 5) \o <<"B", "E", "G", "I", "N">> \o <<" ", "*">>,
     Rep("A", 43), Rep("A", 43) \o <<"=">>,
     Rep("A", 42) \o <<"E">>, Rep("A", 42) \o <<"E", "=">>,
     <<" ">> \o Rep("A", 42) \o <<"E", "\n">>,
     <<"-", "_">> \o Rep("A", 41), <<"+", "/">> \o Rep("A", 41),
     Rep("_", 43), Rep("/", 43) \o <<"=">>,
     Rep("A", 44), Rep("A", 42), Rep("A", 4), <<"A", "A">>, <<"=">>,
     <<"A">>, Rep("A", 45), Rep("A", 43) \o <<"*">>, <<"*">> \o Rep("A", 42) \o <<"E">>}

\* _load_vapid_private_key returns a key (it raises otherwise)
load_vapid_private_key_ok == settings.VAPID_PRIVATE_KEY = "seed"

\* the index of the first character of t, from position i on, that is in cs;
\* Len(t) + 1 when there is none
RECURSIVE Find(_, _, _)
Find(t, i, cs) == IF i > Len(t) \/ t[i] \in cs THEN i ELSE Find(t, i + 1, cs)

\* str.isalpha() of an ASCII character
IsAlpha(c) == a2b(c) < 52

\* scheme_chars of urllib.parse
IsSchemeChar(c) == a2b(c) < 62 \/ c \in {"+", "-", "."}

\* urllib.parse.urlparse(url), for a url without control characters and
\* brackets: its scheme and its netloc.  The scheme is what stands before the
\* first colon when that begins with a letter and holds scheme characters
\* only, in lower case; the netloc is what follows "//" up to the first of
\* "/", "?" and "#"
urlparse(url) ==
    LET i == Find(url, 1, {":"})
        has_scheme == /\ 1 < i /\ i <= Len(url) /\ IsAlpha(url[1])
                      /\ \A j \in 1..(i - 1) : IsSchemeChar(url[j])
        scheme == IF has_scheme THEN lower(SubSeq(url, 1, i - 1)) ELSE <<>>
        rest == IF has_scheme THEN SubSeq(url, i + 1, Len(url)) ELSE url
        has_netloc == startswith(rest, <<"/", "/">>)
        delim == Find(rest, 3, {"/", "?", "#"})
    IN  [scheme |-> scheme,
         netloc |-> IF has_netloc THEN SubSeq(rest, 3, delim - 1) ELSE <<>>]

\* the seconds a VAPID assertion is valid: 12 * 3600
VapidLifetime == 43200

\* _create_vapid_jwt(endpoint) at time now: the claims it signs and the public
\* key it returns, or that loading the key raised
create_vapid_jwt(endpoint, now) ==
    LET parsed == urlparse(endpoint) IN
    IF ~load_vapid_private_key_ok
    THEN [raises |-> "Error", aud |-> <<>>, exp |-> 0, k |-> ""]
    ELSE [raises |-> "", aud |-> parsed.scheme \o <<":", "/", "/">> \o parsed.netloc,
          exp |-> now + VapidLifetime, k |-> settings.VAPID_PUBLIC_KEY]

\* the endpoints a push subscription is stored with
EndpointInputs ==
    {<<"h", "t", "t", "p", "s", ":", "/", "/", "h", "/", "p">>,
     <<"h", "t", "t", "p", "s", ":", "/", "/", "h", ":", "8", "/", "p">>,
     <<"h", "t", "t", "p", "s", ":", "/", "/", "u", ":", "p", "@", "h", "/", "p">>,
     <<"h", "t", "t", "p", "s", ":", "/", "/", "h", "?", "q">>,
     <<"h", "t", "t", "p", "s", ":", "/", "/", "h", "#", "f">>,
     <<"h", "t", "t", "p", "s", ":", "/", "/", "h">>,
     <<"B", ":", "/", "/", "h", "/", "p">>,
     <<"h", "/", "p">>,
     <<"h", "t", "t", "p", "s", ":", "/", "h">>,
     <<"/", "/", "h", "/", "p">>,
     <<"h", "t", "t", "p", "s", ":", "/", "/", "h", "/", "p", "?", "x", "=", "/", "/", "y">>,
     <<>>}

\* what a push endpoint does with the POST: an HTTP status, or 0 when requests raises
NetworkError == 0
PushOutcomes == {NetworkError, 200, 201, 202, 404, 410, 500}

VapidConfigured == settings.VAPID_PRIVATE_KEY # "" /\ settings.VAPID_PUBLIC_KEY # ""

\* a sender that takes status 200 alone for success
send_push_notification_to_subscription_200_only(sub, outcome) ==
    IF ~VapidConfigured
    THEN [sub |-> sub, posted |-> FALSE, ok |-> FALSE]
    ELSE IF ~load_vapid_private_key_ok
         THEN [sub |-> sub, posted |-> FALSE, ok |-> FALSE]
         ELSE [sub |-> sub, posted |-> TRUE, ok |-> outcome = 200]

\* send_push_notification_to_subscription: whether the POST was made, and the result
send_push_notification_to_subscription(sub, outcome) ==
    IF ~VapidConfigured
    THEN [sub |-> sub, posted |-> FALSE, ok |-> FALSE]
    ELSE IF ~load_vapid_private_key_ok
         THEN [sub |-> sub, posted |-> FALSE, ok |-> FALSE]
         ELSE [sub |-> sub, posted |-> TRUE, ok |-> outcome \in {200, 201, 202}]

\* a guard that looks at the host only
is_email_delivery_configured_host_only == settings.SMTP_HOST # ""

is_email_delivery_configured == settings.SMTP_HOST # "" /\ settings.SMTP_FROM_EMAIL # ""

\* what the SMTP session does: the message is sent, or a step of the session raises
EmailOutcomes == {"sent", "smtp_error"}

\* send_email: "True" or "False" as it returns, or the exception it raises.  The
\* message is composed before the try: message["To"] = to_email raises
\* ValueError when the address holds a linefeed
send_email(to_email, outcome) ==
    IF ~is_email_delivery_configured THEN "False"
    ELSE IF Contains(to_email, "\n") THEN "ValueError"
    ELSE IF outcome = "sent" THEN "True" ELSE "False"

\* the step of an SMTP session that raises: none, or one of its four calls
SmtpFailures == {"", "connect", "starttls", "login", "send_message"}

\* the call of smtplib that opens the connection
Connect(SMTP_USE_SSL) == IF SMTP_USE_SSL THEN "SMTP_SSL" ELSE "SMTP"

\* the calls of a session up to and with the one that raises
RECURSIVE UpTo(_, _)
UpTo(steps, failure) ==
    IF steps = <<>> THEN <<>>
    ELSE IF Head(steps) = failure \/ (failure = "connect" /\ Head(steps) \in {"SMTP", "SMTP_SSL"})
         THEN <<Head(steps)>>
         ELSE <<Head(steps)>> \o UpTo(Tail(steps), failure)

\* a session that issues STARTTLS whenever SMTP_USE_TLS is set
smtp_session_tls_always(SMTP_USE_SSL, SMTP_USE_TLS, SMTP_USERNAME, failure) ==
    LET steps == <<Connect(SMTP_USE_SSL)>>
                 \o (IF SMTP_USE_TLS THEN <<"starttls">> ELSE <<>>)
                 \o (IF SMTP_USERNAME # "" THEN <<"login">> ELSE <<>>)
                 \o <<"send_message">>
        calls == UpTo(steps, failure)
    IN  [calls |-> calls, result |-> IF calls = steps /\ failure \notin {"connect", "send_message"}
                                      THEN "True" ELSE "False"]

\* the try block of send_email: the calls of smtplib it makes, in their order,
\* and what send_email returns
smtp_session(SMTP_USE_SSL, SMTP_USE_TLS, SMTP_USERNAME, failure) ==
    LET steps == <<Connect(SMTP_USE_SSL)>>
                 \o (IF SMTP_USE_TLS /\ ~SMTP_USE_SSL THEN <<"starttls">> ELSE <<>>)
                 \o (IF SMTP_USERNAME # "" THEN <<"login">> ELSE <<>>)
                 \o <<"send_message">>
        calls == UpTo(steps, failure)
    IN  [calls |-> calls, result |-> IF calls = steps /\ failure \notin {"connect", "send_message"}
                                      THEN "True" ELSE "False"]

\* str.rstrip("/")
RECURSIVE rstrip_slash(_)
rstrip_slash(t) ==
    IF t # <<>> /\ t[Len(t)] = "/" THEN rstrip_slash(SubSeq(t, 1, Len(t) - 1)) ELSE t

\* str.split(","): the texts between the commas, in their order
RECURSIVE split(_)
split(t) ==
    LET i == Find(t, 1, {","}) IN
    IF i > Len(t) THEN <<t>>
    ELSE <<SubSeq(t, 1, i - 1)>> \o split(SubSeq(t, i + 1, Len(t)))

\* the fixed local default: http://localhost:8000
LocalDefault == <<"h", "t", "t", "p", ":", "/", "/", "l", "o", "c", "a", "l", "h", "o", "s", "t", ":", "8", "0", "0", "0">>

\* a resolution that takes the first entry of CORS_ORIGINS, empty or not
resolve_public_base_url_first_entry(PUBLIC_BASE_URL, CORS_ORIGINS) ==
    LET base_url == strip(PUBLIC_BASE_URL)
        entries == split(CORS_ORIGINS)
        origins == [i \in 1..Len(entries) |-> strip(entries[i])]
    IN  IF base_url # <<>> THEN rstrip_slash(base_url)
        ELSE IF origins[1] # <<>> THEN rstrip_slash(origins[1])
        ELSE LocalDefault

\* _resolve_public_base_url()
resolve_public_base_url(PUBLIC_BASE_URL, CORS_ORIGINS) ==
    LET base_url == strip(PUBLIC_BASE_URL)
        entries == split(CORS_ORIGINS)
        origins == SelectSeq([i \in 1..Len(entries) |-> strip(entries[i])],
                             LAMBDA origin : origin # <<>>)
    IN  IF base_url # <<>> THEN rstrip_slash(base_url)
        ELSE IF origins # <<>> THEN rstrip_slash(origins[1])
        ELSE LocalDefault

\* urllib.parse.quote_plus of a character, for the characters of the model:
\* letters, digits and _ . - ~ stay, a space becomes +, the others their code
quote_plus(c) ==
    IF a2b(c) < 62 \/ c \in {"_", ".", "-", "~"} THEN <<c>>
    ELSE CASE c = " " -> <<"+">>
           [] c = "&" -> <<"%", "2", "6">>
           [] c = "+" -> <<"%", "2", "B">>
           [] c = "/" -> <<"%", "2", "F">>
           [] c = "=" -> <<"%", "3", "D">>

\* quote_plus of a text
RECURSIVE quote_plus_text(_)
quote_plus_text(t) ==
    IF t = <<>> THEN <<>> ELSE quote_plus(Head(t)) \o quote_plus_text(Tail(t))

\* str(n), of a natural number
RECURSIVE str(_)
str(n) ==
    LET digit == <<"0", "1", "2", "3", "4", "5", "6", "7", "8", "9">>[(n % 10) + 1]
    IN  IF n < 10 THEN <<digit>> ELSE str(n \div 10) \o <<digit>>

\* send_answer_email: the link it writes into the message
answer_link(PUBLIC_BASE_URL, CORS_ORIGINS, student_key, suggestion_id) ==
    resolve_public_base_url(PUBLIC_BASE_URL, CORS_ORIGINS)
        \o <<"/", "m", "e", ".", "h", "t", "m", "l", "?">>
        \o <<"s", "k", "=">> \o quote_plus_text(student_key)
        \o <<"&", "s", "i", "d", "=">> \o str(suggestion_id)

\* the settings of PUBLIC_BASE_URL and of CORS_ORIGINS, the student keys and
\* the ids a link is built from
BaseUrlInputs == {<<>>, <<" ">>, <<"h">>, <<" ", "h", "/", "/", " ">>, <<"/">>}
OriginsInputs == {<<>>, <<"o">>, <<" ", ",", "o", "/", ",", "p">>, <<",", " ">>}
KeyTextInputs == {<<"k", "1">>, <<"a", " ", "&", "=">>}
IdInputs == {1, 12}

\* a loop that sends again to a subscription whose send failed
next_subscription_retry(idx, res) == IF res.ok THEN idx + 1 ELSE idx

\* for sub in subscriptions: the position after the send at position idx
next_subscription(idx, res) == idx + 1

\* a query without its filter: every subscription of the table
Select_unfiltered(ids) == [i \in 1..NumSubs |-> i]

\* .all() of a query that selects the subscriptions ids: the ids in table order
Select(ids) == SelectSeq([i \in 1..NumSubs |-> i], LAMBDA i : i \in ids)

IsAdminSub(i) == subs[i].admin_id # None

-----------------------------------------------------------------------------
(* POST /api/suggestions: create_suggestion, then _notify_admins in the
   background after the response *)

create_suggestion ==
    /\ Ready /\ Free
    /\ \E key \in Submitters, grade \in GradeInputs,
          title \in TitleInputs, content \in ContentInputs :
         IF ~SuggestionCreateIn(grade, title, content)
         THEN /\ Reject(Arrive("create", 0, key), 422)
              /\ UNCHANGED <<store, nextId>>
         ELSE /\ nextId \in SuggestionIds
              /\ store' = With(nextId,
                              Suggestion(key, grade, strip(title), strip(content), "pending"))
              /\ nextId' = nextId + 1
              /\ Start([Arrive("create", nextId, key) EXCEPT
                            !.pc = "refresh", !.committed = TRUE])
    /\ UNCHANGED <<call, settings, subs, pushed, mailed, adminPushed>>

\* a handler that calls _notify_admins itself, before it returns
create_suggestion_refresh_inline(rec) ==
    /\ Ready /\ rec.kind = "create" /\ rec.pc = "refresh"
    /\ IF Exists(rec.id)
       THEN Step(rec, [rec EXCEPT !.pc = "bg"])
       ELSE Finish(rec, 500)
    /\ UNCHANGED <<call, settings, subs, store, nextId, pushed, mailed, adminPushed>>

\* db.refresh(s); background_tasks.add_task(_notify_admins, body.title); return s
create_suggestion_refresh(rec) ==
    /\ Ready /\ rec.kind = "create" /\ rec.pc = "refresh"
    /\ IF Exists(rec.id)
       THEN Respond(rec, [rec EXCEPT !.pc = "bg"], 200)
       ELSE Finish(rec, 500)
    /\ UNCHANGED <<call, settings, subs, store, nextId, pushed, mailed, adminPushed>>

\* _notify_admins: the query of the admin subscriptions
notify_admins(rec) ==
    /\ ~Responding /\ rec.kind = "create" /\ rec.pc = "bg"
    /\ \E dbError \in BOOLEAN :
         IF dbError
         THEN EndTask(rec)
         ELSE LET admin_subs == Select({i \in SubIds : IsAdminSub(i)}) IN
              IF admin_subs = <<>>
              THEN EndTask(rec)
              ELSE Step(rec, [rec EXCEPT !.list = admin_subs, !.idx = 1, !.pc = "bg_push"])
    /\ UNCHANGED <<call, settings, subs, store, nextId, pushed, mailed, adminPushed>>

\* _notify_admins: one iteration of the loop over admin_subs
notify_admins_send(rec) ==
    /\ ~Responding /\ rec.kind = "create" /\ rec.pc = "bg_push"
    /\ IF rec.idx > Len(rec.list)
       THEN /\ EndTask(rec)
            /\ UNCHANGED adminPushed
       ELSE \E outcome \in PushOutcomes :
            LET sub == rec.list[rec.idx]
                res == send_push_notification_to_subscription(sub, outcome)
            IN  /\ Step(rec, [rec EXCEPT !.attempts = Append(@, res),
                                         !.idx = next_subscription(rec.idx, res)])
                /\ adminPushed' = [adminPushed EXCEPT ![rec.id] = Append(@, sub)]
    /\ UNCHANGED <<call, settings, subs, store, nextId, pushed, mailed>>

-----------------------------------------------------------------------------
(* PATCH /api/me/suggestions/{id}: update_my_suggestion *)

update_my_suggestion ==
    /\ Ready /\ Free
    /\ \E id \in SuggestionIds, key \in StudentKeys, grade \in Opt(GradeInputs),
          title \in Opt(TitleInputs), content \in Opt(ContentInputs) :
         LET rec == Arrive("update", id, key) IN
         IF ~SuggestionUpdateIn(grade, title, content) THEN Reject(rec, 422)
         ELSE IF ~Exists(id) \/ store[id].student_key # key THEN Reject(rec, 404)
         ELSE IF Conflict(store[id]) THEN Reject(rec, 409)
         ELSE LET s == store[id] IN
              Start([rec EXCEPT !.pc = "commit",
                  !.dirty = [Clean EXCEPT
                      !.grade = IF grade = None THEN None ELSE Assign(s.grade, grade[1]),
                      !.title = IF title = None THEN None
                                ELSE Assign(s.title, strip(title[1])),
                      !.content = IF content = None THEN None
                                  ELSE Assign(s.content, strip(content[1]))]])
    /\ UNCHANGED <<call, settings, subs, store, nextId, pushed, mailed, adminPushed>>

\* db.add(s); db.commit()
update_my_suggestion_commit(rec) ==
    /\ Ready /\ rec.kind = "update" /\ rec.pc = "commit"
    /\ Commit(rec)
    /\ UNCHANGED <<call, settings, subs, nextId, pushed, mailed, adminPushed>>

\* db.refresh(s); return s
update_my_suggestion_refresh(rec) ==
    /\ Ready /\ rec.kind = "update" /\ rec.pc = "refresh"
    /\ Refresh(rec)
    /\ UNCHANGED <<call, settings, subs, store, nextId, pushed, mailed, adminPushed>>

-----------------------------------------------------------------------------
(* PATCH /api/me/suggestions/{id}/notification-email: set_notification_email *)

set_notification_email ==
    /\ Ready /\ Free
    /\ \E id \in SuggestionIds, key \in StudentKeys, email \in EmailInputs :
         LET rec == Arrive("email", id, key)
             body == SuggestionNotificationEmailIn(email)
         IN
         IF body = None THEN Reject(rec, 422)
         ELSE IF ~is_email_delivery_configured THEN Reject(rec, 503)
         ELSE IF ~Exists(id) \/ store[id].student_key # key THEN Reject(rec, 404)
         ELSE IF Conflict(store[id]) THEN Reject(rec, 409)
         ELSE Start([rec EXCEPT !.pc = "commit",
                  !.dirty = [Clean EXCEPT
                      !.notification_email = Assign(store[id].notification_email, body)]])
    /\ UNCHANGED <<call, settings, subs, store, nextId, pushed, mailed, adminPushed>>

set_notification_email_commit(rec) ==
    /\ Ready /\ rec.kind = "email" /\ rec.pc = "commit"
    /\ Commit(rec)
    /\ UNCHANGED <<call, settings, subs, nextId, pushed, mailed, adminPushed>>

set_notification_email_refresh(rec) ==
    /\ Ready /\ rec.kind = "email" /\ rec.pc = "refresh"
    /\ Refresh(rec)
    /\ UNCHANGED <<call, settings, subs, store, nextId, pushed, mailed, adminPushed>>

-----------------------------------------------------------------------------
(* DELETE /api/me/suggestions/{id}: delete_my_suggestion *)

\* a delete that looks the suggestion up by its id alone
delete_my_suggestion_any_owner ==
    /\ Ready /\ Free
    /\ \E id \in SuggestionIds, key \in StudentKeys :
         LET rec == Arrive("delete", id, key) IN
         IF ~Exists(id) THEN Reject(rec, 404)
         ELSE IF Conflict(store[id]) THEN Reject(rec, 409)
         ELSE Start([rec EXCEPT !.pc = "commit"])
    /\ UNCHANGED <<call, settings, subs, store, nextId, pushed, mailed, adminPushed>>

delete_my_suggestion ==
    /\ Ready /\ Free
    /\ \E id \in SuggestionIds, key \in StudentKeys :
         LET rec == Arrive("delete", id, key) IN
         IF ~Exists(id) \/ store[id].student_key # key THEN Reject(rec, 404)
         ELSE IF Conflict(store[id]) THEN Reject(rec, 409)
         ELSE Start([rec EXCEPT !.pc = "commit"])
    /\ UNCHANGED <<call, settings, subs, store, nextId, pushed, mailed, adminPushed>>

\* db.delete(s); db.commit(); return {"ok": True}
delete_my_suggestion_commit(rec) ==
    /\ Ready /\ rec.kind = "delete" /\ rec.pc = "commit"
    /\ store' = Without(rec.id)
    /\ Finish(rec, 200)
    /\ UNCHANGED <<call, settings, subs, nextId, pushed, mailed, adminPushed>>

-----------------------------------------------------------------------------
(* PATCH /api/admin/suggestions/{id}/answer: admin_answer_suggestion *)

admin_answer_suggestion ==
    /\ Ready /\ Free
    /\ \E id \in SuggestionIds, answer \in AnswerInputs, t \in Clock :
         LET rec == Arrive("answer", id, "") IN
         IF ~SuggestionAnswerIn(answer) THEN Reject(rec, 422)
         ELSE IF ~Exists(id) THEN Reject(rec, 404)
         ELSE LET s == store[id] IN
              Start([rec EXCEPT !.pc = "commit",
                  !.old_status = s.status,
                  !.dirty = AnswerAssignments(s, answer, t)])
    /\ UNCHANGED <<call, settings, subs, store, nextId, pushed, mailed, adminPushed>>

admin_answer_suggestion_commit(rec) ==
    /\ Ready /\ rec.kind = "answer" /\ rec.pc = "commit"
    /\ Commit(rec)
    /\ UNCHANGED <<call, settings, subs, nextId, pushed, mailed, adminPushed>>

\* a handler that sends the email only when a push went through
AfterPush_when_pushed(old, rec) ==
    IF /\ rec.s[1].notification_email # None /\ rec.s[1].notification_email[1] # <<>>
       /\ \E j \in 1..Len(rec.attempts) : rec.attempts[j].ok
    THEN Step(old, [rec EXCEPT !.pc = "email"])
    ELSE Finish(old, 200)

\* the rest of the handler once send_push_notifications has returned:
\* if s.notification_email: send_answer_email(...); return s
AfterPush(old, rec) ==
    IF rec.s[1].notification_email # None /\ rec.s[1].notification_email[1] # <<>>
    THEN Step(old, [rec EXCEPT !.pc = "email"])
    ELSE Finish(old, 200)

\* the handler after db.refresh(s): the test of old_status, and the guard of
\* send_push_notifications
Notify(old, rec) ==
    IF first_answer(rec.old_status)
    THEN IF ~VapidConfigured THEN AfterPush(old, rec)
         ELSE Step(old, [rec EXCEPT !.pc = "fan"])
    ELSE Finish(old, 200)

admin_answer_suggestion_refresh(rec) ==
    /\ Ready /\ rec.kind = "answer" /\ rec.pc = "refresh"
    /\ IF Exists(rec.id)
       THEN Notify(rec, [rec EXCEPT !.s = Some(store[rec.id])])
       ELSE Finish(rec, 500)
    /\ UNCHANGED <<call, settings, subs, store, nextId, pushed, mailed, adminPushed>>

\* send_push_notifications: the query of the student's subscriptions
send_push_notifications(rec) ==
    LET IsStudentSub(i) == subs[i].student_key = Some(rec.s[1].student_key) IN
    /\ ~Responding /\ rec.kind = "answer" /\ rec.pc = "fan"
    /\ \E dbError \in BOOLEAN :
         IF dbError
         THEN AfterPush(rec, rec)
         ELSE LET subscriptions == Select({i \in SubIds : IsStudentSub(i)}) IN
              IF subscriptions = <<>>
              THEN AfterPush(rec, rec)
              ELSE Step(rec, [rec EXCEPT !.list = subscriptions, !.idx = 1,
                                         !.pc = "fan_push"])
    /\ UNCHANGED <<call, settings, subs, store, nextId, pushed, mailed, adminPushed>>

\* send_push_notifications: one iteration of the loop over subscriptions
send_push_notifications_send(rec) ==
    /\ ~Responding /\ rec.kind = "answer" /\ rec.pc = "fan_push"
    /\ IF rec.idx > Len(rec.list)
       THEN /\ AfterPush(rec, rec)
            /\ UNCHANGED pushed
       ELSE \E outcome \in PushOutcomes :
            LET sub == rec.list[rec.idx]
                res == send_push_notification_to_subscription(sub, outcome)
            IN  /\ Step(rec, [rec EXCEPT !.attempts = Append(@, res),
                                         !.idx = next_subscription(rec.idx, res)])
                /\ pushed' = [pushed EXCEPT ![rec.id] = Append(@, sub)]
    /\ UNCHANGED <<call, settings, subs, store, nextId, mailed, adminPushed>>

\* send_answer_email(s.notification_email, ...), which returns what send_email
\* returns and raises what it raises; return s
send_answer_email(rec) ==
    /\ ~Responding /\ rec.kind = "answer" /\ rec.pc = "email"
    /\ \E outcome \in EmailOutcomes :
         LET to_email == rec.s[1].notification_email[1]
             sent == send_email(to_email, outcome)
         IN  /\ mailed' = [mailed EXCEPT ![rec.id] = Append(@, to_email)]
             /\ IF sent \in {"True", "False"} THEN Finish(rec, 200) ELSE Finish(rec, 500)
    /\ UNCHANGED <<call, settings, subs, store, nextId, pushed, adminPushed>>

-----------------------------------------------------------------------------
(* DELETE /api/admin/suggestions/{id}: admin_delete_suggestion *)

admin_delete_suggestion ==
    /\ Ready /\ Free
    /\ \E id \in SuggestionIds :
         LET rec == Arrive("admin_delete", id, "") IN
         IF ~Exists(id) THEN Reject(rec, 404)
         ELSE Start([rec EXCEPT !.pc = "commit"])
    /\ UNCHANGED <<call, settings, subs, store, nextId, pushed, mailed, adminPushed>>

\* db.delete(s); db.commit()
admin_delete_suggestion_commit(rec) ==
    /\ Ready /\ rec.kind = "admin_delete" /\ rec.pc = "commit"
    /\ store' = Without(rec.id)
    /\ Finish(rec, 204)
    /\ UNCHANGED <<call, settings, subs, nextId, pushed, mailed, adminPushed>>

-----------------------------------------------------------------------------
(* The system *)

\* the response reaches its client
Deliver ==
    /\ Responding
    /\ response' = NoResponse
    /\ UNCHANGED <<call, settings, subs, store, nextId, req, pushed, mailed, adminPushed>>

Next ==
    \/ Deliver
    \/ create_suggestion
    \/ \E rec \in InFlight : create_suggestion_refresh(rec)
    \/ \E rec \in InFlight : notify_admins(rec)
    \/ \E rec \in InFlight : notify_admins_send(rec)
    \/ update_my_suggestion
    \/ \E rec \in InFlight : update_my_suggestion_commit(rec)
    \/ \E rec \in InFlight : update_my_suggestion_refresh(rec)
    \/ set_notification_email
    \/ \E rec \in InFlight : set_notification_email_commit(rec)
    \/ \E rec \in InFlight : set_notification_email_refresh(rec)
    \/ delete_my_suggestion
    \/ \E rec \in InFlight : delete_my_suggestion_commit(rec)
    \/ admin_answer_suggestion
    \/ \E rec \in InFlight : admin_answer_suggestion_commit(rec)
    \/ \E rec \in InFlight : admin_answer_suggestion_refresh(rec)
    \/ \E rec \in InFlight : send_push_notifications(rec)
    \/ \E rec \in InFlight : send_push_notifications_send(rec)
    \/ \E rec \in InFlight : send_answer_email(rec)
    \/ admin_delete_suggestion
    \/ \E rec \in InFlight : admin_delete_suggestion_commit(rec)

Spec == Init /\ [][Next]_vars

-----------------------------------------------------------------------------
(* The senders and helpers called directly, on every input: one call in a
   behaviour *)

\* a call: the function, what it was given and what came back
Call(fn, arg, result) == [fn |-> fn, arg |-> arg, result |-> result]

\* send_push_notification_to_subscription(sub, title, body), for every answer of
\* the push endpoint
Call_send_push_notification_to_subscription ==
    /\ call = NoCall
    /\ \E sub \in SubIds, status \in PushOutcomes :
         call' = Call("send_push_notification_to_subscription", <<sub, status>>,
                      send_push_notification_to_subscription(sub, status))
    /\ UNCHANGED <<settings, subs, store, nextId, req, response, pushed, mailed,
                   adminPushed>>

\* send_email(to_email, subject, text_body, html_body, reply_to), for every
\* recipient and every course of the SMTP session
Call_send_email ==
    /\ call = NoCall
    /\ \E to_email \in EmailInputs, outcome \in EmailOutcomes :
         call' = Call("send_email", <<to_email, outcome>>, send_email(to_email, outcome))
    /\ UNCHANGED <<settings, subs, store, nextId, req, response, pushed, mailed,
                   adminPushed>>

\* _load_vapid_private_key(), for every configured key text
Call_load_vapid_private_key ==
    /\ call = NoCall
    /\ \E VAPID_PRIVATE_KEY \in KeyInputs :
         \E result \in load_vapid_private_key(VAPID_PRIVATE_KEY) :
            call' = Call("_load_vapid_private_key", <<VAPID_PRIVATE_KEY>>, result)
    /\ UNCHANGED <<settings, subs, store, nextId, req, response, pushed, mailed,
                   adminPushed>>

\* _create_vapid_jwt(endpoint), for every endpoint and time
Call_create_vapid_jwt ==
    /\ call = NoCall
    /\ \E endpoint \in EndpointInputs, now \in Clock :
         call' = Call("_create_vapid_jwt", <<endpoint, now>>, create_vapid_jwt(endpoint, now))
    /\ UNCHANGED <<settings, subs, store, nextId, req, response, pushed, mailed,
                   adminPushed>>

\* the SMTP session of send_email, for every setting of SMTP_USE_SSL,
\* SMTP_USE_TLS and SMTP_USERNAME and every call that can raise
Call_smtp_session ==
    /\ call = NoCall /\ is_email_delivery_configured
    /\ \E SMTP_USE_SSL \in BOOLEAN, SMTP_USE_TLS \in BOOLEAN, SMTP_USERNAME \in {"", "user"},
          failure \in SmtpFailures :
         call' = Call("smtp_session", <<SMTP_USE_SSL, SMTP_USE_TLS, SMTP_USERNAME, failure>>,
                      smtp_session(SMTP_USE_SSL, SMTP_USE_TLS, SMTP_USERNAME, failure))
    /\ UNCHANGED <<settings, subs, store, nextId, req, response, pushed, mailed,
                   adminPushed>>

\* send_answer_email(notification_email, student_key, suggestion_id, ...), for
\* every setting of the base URL and the origins: the base it resolves and the
\* link it builds
Call_send_answer_email ==
    /\ call = NoCall
    /\ \E PUBLIC_BASE_URL \in BaseUrlInputs, CORS_ORIGINS \in OriginsInputs,
          student_key \in KeyTextInputs, suggestion_id \in IdInputs :
         call' = Call("send_answer_email",
                      <<PUBLIC_BASE_URL, CORS_ORIGINS, student_key, suggestion_id>>,
                      [base |-> resolve_public_base_url(PUBLIC_BASE_URL, CORS_ORIGINS),
                       link |-> answer_link(PUBLIC_BASE_URL, CORS_ORIGINS, student_key,
                                            suggestion_id)])
    /\ UNCHANGED <<settings, subs, store, nextId, req, response, pushed, mailed,
                   adminPushed>>

PureNext ==
    \/ Call_send_push_notification_to_subscription
    \/ Call_send_email
    \/ Call_load_vapid_private_key
    \/ Call_create_vapid_jwt
    \/ Call_smtp_session
    \/ Call_send_answer_email

PureSpec == Init /\ [][PureNext]_vars

-----------------------------------------------------------------------------
(* Properties *)

Answered(i) == i \in DOMAIN store /\ store[i].status = "answered"

\* the step takes in a request of one of the kinds for suggestion i: its
\* handler has passed its tests and waits for its commit
Starts(kinds, i) ==
    \E rec \in BagToSet(req') :
        /\ rec.kind \in kinds /\ rec.id = i /\ rec.pc = "commit"
        /\ CopiesIn(rec, req') > CopiesIn(rec, req)

\* the step answers a request of one of the kinds for suggestion i at once
Rejects(kinds, i) ==
    /\ req' = req /\ ~Responding /\ Responding'
    /\ response'.kind \in kinds /\ response'.id = i

\* the request rec of the bag takes the step
Moves(rec) == CopiesIn(rec, req') < CopiesIn(rec, req)

\* C1: a suggestion is created pending, its status is pending or answered, and
\* no step takes the status of an answered suggestion back to pending
C1_StatusOnlyMovesToAnswered ==
    [][\A i \in SuggestionIds :
         /\ (i \notin DOMAIN store /\ i \in DOMAIN store') => store'[i].status = "pending"
         /\ i \in DOMAIN store' => store'[i].status \in {"pending", "answered"}
         /\ (Answered(i) /\ i \in DOMAIN store') => store'[i].status = "answered"]_vars

\* a second answer has been committed on an answered suggestion
C1_Witness ==
    \E rec \in InFlight :
        /\ rec.kind = "answer" /\ rec.pc = "refresh" /\ rec.old_status = "answered"
        /\ Answered(rec.id)

\* C2: for every suggestion each subscription gets at most one student push and
\* at most one answer email is sent, whatever the interleaving of answer requests
C2_FanOutAtMostOnce ==
    \A i \in SuggestionIds :
        /\ Len(mailed[i]) <= 1
        /\ \A sub \in SubIds :
               Cardinality({j \in 1..Len(pushed[i]) : pushed[i][j] = sub}) <= 1

\* C3: the status an answer request holds as old_status is the status of the row
\* when the handler loaded it, and every student push and every answer email is
\* attempted by an answer request that had loaded the row as pending; a
\* request that loaded it as answered attempts none
C3_NotifyOnlyOnFirstAnswer ==
    [][/\ \A rec \in BagToSet(req') :
            (rec.kind = "answer" /\ rec.pc = "commit"
                /\ CopiesIn(rec, req') > CopiesIn(rec, req)) =>
               rec.id \in DOMAIN store /\ rec.old_status = store[rec.id].status
       /\ (pushed' # pushed \/ mailed' # mailed) =>
             \E rec \in InFlight :
                 rec.kind = "answer" /\ rec.old_status = "pending" /\ Moves(rec)]_vars

\* an answer on an answered suggestion with a notification email has returned
\* 200, and the only email is the one of the first answer
C3_Witness ==
    /\ response.kind = "answer" /\ response.code = 200
    /\ response.old_status = "answered"
    /\ Answered(response.id)
    /\ store[response.id].notification_email # None
    /\ Len(mailed[response.id]) = 1

\* C4: while a suggestion is answered, no update or delete request of a student
\* gets past the test of the status: the owner's request is answered 409 (422 is
\* the body the request layer rejects before the handler), and the step leaves
\* table suggestions as it is
C4_AnsweredRejectsStudentMutation ==
    [][\A i \in SuggestionIds : Answered(i) =>
         /\ ~Starts({"update", "delete"}, i)
         /\ Rejects({"update", "delete"}, i) =>
              /\ store' = store
              /\ (response'.key = store[i].student_key /\ response'.code # 422)
                    => response'.code = 409]_vars

\* the owner's update or delete of an answered suggestion has been answered 409
C4_Witness ==
    /\ response.kind \in {"update", "delete"} /\ response.code = 409
    /\ Answered(response.id)
    /\ response.key = store[response.id].student_key

\* C5 as claimed: no delete request, the administrator's included, is accepted
\* for an answered suggestion
C5_NoDeleteOfAnswered ==
    [][\A i \in SuggestionIds : Answered(i) =>
         ~Starts({"delete", "admin_delete"}, i)]_vars

\* C5 as amended: a student's delete request that finds the suggestion
\* answered is not accepted; the administrator's delete of a row that exists is
\* never rejected, and its commit removes the row and returns 204
C5_OnlyStudentDeleteNeedsPending ==
    [][\A i \in SuggestionIds :
         /\ Answered(i) => ~Starts({"delete"}, i)
         /\ i \in DOMAIN store => ~Rejects({"admin_delete"}, i)
         /\ \A rec \in InFlight :
              (rec.kind = "admin_delete" /\ rec.id = i /\ Moves(rec)) =>
                  i \notin DOMAIN store' /\ response'.code = 204]_vars

\* the administrator's delete has returned 204 for a suggestion whose answer
\* email had gone out, and the row is gone
C5_Witness ==
    /\ response.kind = "admin_delete" /\ response.code = 204
    /\ mailed[response.id] # <<>>
    /\ response.id \notin DOMAIN store

\* C6: a notification-email request is accepted only when SMTP host and from
\* address are set and the suggestion is pending; a request with a valid body is
\* answered 503 when email delivery is unconfigured, else 404 for a row that is
\* missing or of another owner, else 409 when the row is not pending; every
\* request that fails leaves table suggestions as it is
C6_NotificationEmailGuards ==
    [][\A i \in SuggestionIds :
         LET configured == settings.SMTP_HOST # "" /\ settings.SMTP_FROM_EMAIL # "" IN
         /\ Starts({"email"}, i) =>
              configured /\ i \in DOMAIN store /\ store[i].status = "pending"
         /\ Rejects({"email"}, i) =>
              /\ store' = store
              /\ response'.code \in {422, 503, 404, 409}
              /\ response'.code = 503 <=> (response'.code # 422 /\ ~configured)
              /\ response'.code = 409 =>
                    Answered(i) /\ store[i].student_key = response'.key
              /\ (configured /\ Answered(i) /\ store[i].student_key = response'.key
                    /\ response'.code # 422) => response'.code = 409
         /\ (response'.kind = "email" /\ response'.code \notin {0, 200}) =>
              store' = store]_vars

\* a notification-email request for a pending suggestion of its owner has been
\* answered 503
C6_Witness ==
    /\ response.kind = "email" /\ response.code = 503
    /\ response.id \in DOMAIN store
    /\ store[response.id].status = "pending"
    /\ store[response.id].student_key = response.key

\* C7: in every row, answer is set iff the status is answered, and answered_at
\* is set iff the status is answered
C7_AnswerIffAnswered ==
    \A i \in DOMAIN store :
        /\ store[i].answer # None <=> store[i].status = "answered"
        /\ store[i].answered_at # None <=> store[i].status = "answered"

\* an answered row, with its answer and its time of answer
C7_Witness ==
    \E i \in DOMAIN store :
        store[i].status = "answered" /\ store[i].answer # None
            /\ store[i].answered_at # None

\* C8: the stored answer of an answered suggestion has 1 to 10,000 characters
C8_StoredAnswerNotEmpty ==
    \A i \in DOMAIN store :
        (store[i].status = "answered" /\ store[i].answer # None) =>
            /\ Len(store[i].answer[1]) >= AnswerMinLength
            /\ Len(store[i].answer[1]) <= AnswerMaxLength

\* C9: a request that is in its notification path has committed its change: the
\* answered row, if it still exists, is answered in the table, and the created
\* suggestion has been inserted; no attempt is on record for a suggestion that
\* was not inserted
C9_CommitBeforeNotification ==
    /\ \A rec \in InFlight :
         /\ (rec.kind = "answer" /\ rec.pc \in {"fan", "fan_push", "email"}) =>
               rec.committed /\ (rec.id \in DOMAIN store => Answered(rec.id))
         /\ (rec.kind = "create" /\ rec.pc \in {"bg", "bg_push"}) =>
               rec.committed /\ rec.id < nextId
    /\ \A i \in SuggestionIds :
         (pushed[i] # <<>> \/ mailed[i] # <<>> \/ adminPushed[i] # <<>>) => i < nextId

\* a student push has been attempted for a row that is answered in the table
C9_Witness ==
    \E rec \in InFlight :
        /\ rec.kind = "answer" /\ rec.pc = "fan_push" /\ rec.attempts # <<>>
        /\ Answered(rec.id)

\* C10: in both loops the sends made so far are those of the positions before
\* the current one, one send per position, in order, whatever their results; so
\* at the exit of the loop every subscription of the list has had one send
C10_FanOutIsolation ==
    \A rec \in InFlight : rec.pc \in {"fan_push", "bg_push"} =>
        /\ rec.idx \in 1..(Len(rec.list) + 1)
        /\ Len(rec.attempts) = rec.idx - 1
        /\ \A j \in 1..Len(rec.attempts) : rec.attempts[j].sub = rec.list[j]
        /\ \A j, k \in 1..Len(rec.list) : rec.list[j] = rec.list[k] => j = k

\* a loop over two subscriptions is at its exit: the first send failed, the
\* second was made and succeeded
C10_Witness ==
    \E rec \in InFlight :
        /\ rec.pc \in {"fan_push", "bg_push"} /\ rec.idx > Len(rec.list)
        /\ Len(rec.list) >= 2
        /\ ~rec.attempts[1].ok /\ rec.attempts[2].ok

\* the request rec of the bag takes the step and goes on as nxt
Becomes(rec, nxt) ==
    /\ Moves(rec)
    /\ nxt.kind = rec.kind /\ nxt.id = rec.id
    /\ CopiesIn(nxt, req') > CopiesIn(nxt, req)

\* the refreshed row of an answer request has a notification email
HasEmail(rec) == rec.s # None /\ rec.s[1].notification_email # None

C12_NotificationFailuresAbsorbed ==
    [][\A rec \in InFlight :
         (rec.kind = "answer" /\ rec.pc \in {"fan", "fan_push", "email"} /\ Moves(rec)) =>
            /\ response'.code \in {0, 200}
            /\ store' = store]_vars

\* C13: the admin fan-out of a created suggestion starts in the step that
\* returns the 200 of its create request, whose insert is committed, and its
\* steps run once that response has gone out; every step of it leaves table
\* suggestions as it is and produces no response; and every subscription gets
\* at most one admin push per created suggestion
C13_AdminFanOutDeferred ==
    [][/\ \A rec \in InFlight : (rec.kind = "create" /\ Moves(rec)) =>
            /\ (\E nxt \in BagToSet(req') : Becomes(rec, nxt) /\ nxt.pc = "bg") =>
                  /\ rec.committed /\ rec.id < nextId
                  /\ response'.kind = "create" /\ response'.code = 200
            /\ rec.pc \in {"bg", "bg_push"} =>
                  /\ ~Responding
                  /\ store' = store /\ response' = NoResponse
       /\ adminPushed' # adminPushed =>
            \E rec \in InFlight : rec.kind = "create" /\ rec.pc = "bg_push" /\ Moves(rec)
       /\ \A i \in SuggestionIds, sub \in SubIds :
            Cardinality({j \in 1..Len(adminPushed'[i]) : adminPushed'[i][j] = sub}) <= 1]_vars

\* the admin fan-out of a created suggestion is at its end with every send
\* failed, and the suggestion is in the table, pending
C13_Witness ==
    \E rec \in InFlight :
        /\ rec.kind = "create" /\ rec.pc = "bg_push" /\ rec.idx > Len(rec.list)
        /\ rec.attempts # <<>>
        /\ \A j \in 1..Len(rec.attempts) : ~rec.attempts[j].ok
        /\ rec.id \in DOMAIN store /\ store[rec.id].status = "pending"

\* C14: a direct call of the push sender returns a boolean, never an exception;
\* it returns true exactly when the POST was made and the endpoint answered
\* 200, 201 or 202; any other status, a network error, and a key that is
\* missing or does not load give false
C14_PushClassification ==
    call.fn = "send_push_notification_to_subscription" =>
        LET status == call.arg[2]
            keys == settings.VAPID_PRIVATE_KEY = "seed" /\ settings.VAPID_PUBLIC_KEY # ""
        IN  /\ call.result.ok \in BOOLEAN
            /\ call.result.posted = keys
            /\ call.result.ok = (keys /\ status \in {200, 201, 202})

\* the sender was called with keys that load and the endpoint answered 201;
\* it returned true
C14_Witness ==
    /\ call.fn = "send_push_notification_to_subscription"
    /\ call.arg[2] = 201 /\ call.result.posted /\ call.result.ok

\* C15: a direct call of send_email never raises: for every recipient and
\* every course of the SMTP session it returns true or false; it returns false
\* when email delivery is unconfigured, and true only when the message was
\* transmitted
C15_SendEmailNeverRaises ==
    call.fn = "send_email" =>
        /\ call.result \in {"True", "False"}
        /\ (settings.SMTP_HOST = "" \/ settings.SMTP_FROM_EMAIL = "") => call.result = "False"
        /\ call.result = "True" => call.arg[2] = "sent"

\* C16: when the VAPID private or public key is not configured, neither
\* fan-out iterates subscriptions or invokes the per-subscription sender, and
\* no POST is made
C16_VapidGuard ==
    (settings.VAPID_PRIVATE_KEY = "" \/ settings.VAPID_PUBLIC_KEY = "") =>
        /\ \A i \in SuggestionIds : pushed[i] = <<>> /\ adminPushed[i] = <<>>
        /\ \A rec \in InFlight :
              /\ rec.list = <<>>
              /\ \A j \in 1..Len(rec.attempts) : ~rec.attempts[j].posted

\* C17: a step of an answer request that found its suggestion already answered
\* leaves the stored answer text, answered_at and status of that suggestion
\* unchanged
C17_SecondAnswerNoOp ==
    [][\A rec \in InFlight :
         (/\ rec.kind = "answer" /\ rec.old_status = "answered" /\ Moves(rec)
          /\ rec.id \in DOMAIN store /\ rec.id \in DOMAIN store') =>
            /\ store'[rec.id].answer = store[rec.id].answer
            /\ store'[rec.id].answered_at = store[rec.id].answered_at
            /\ store'[rec.id].status = store[rec.id].status]_vars

\* the key text of a direct call of the loader, trimmed
KeyText == strip(call.arg[1])

\* the key text starts with the PEM header prefix
IsPem == startswith(KeyText, <<"-", "-", "-", "-", "-", "B", "E", "G", "I", "N">>)

\* the key text is URL-safe base64 of 32 bytes: 43 characters of the URL-safe
\* alphabet, with or without the '=' that completes them
IsUrlSafeSeed ==
    /\ Len(KeyText) \in {43, 44}
    /\ \A i \in 1..43 : KeyText[i] \in {"-", "_"} \/ (a2b(KeyText[i]) < 62)
    /\ Len(KeyText) = 44 => KeyText[44] = "="

\* what the key text decodes to, '-' and '_' read as '+' and '/' and the
\* padding completed
Decoded ==
    LET t == replace(replace(KeyText, "-", "+"), "_", "/")
    IN  b64decode(t \o Rep("=", (4 - (Len(t) % 4)) % 4))

\* C18 as stated: of a direct call of the loader, (1) a key text starting with
\* the PEM header prefix is parsed as PEM; (2) URL-safe base64 of exactly 32
\* bytes, padded or not, loads as a P-256 private key; (3) a key text that
\* decodes to another length fails with the key-length error; (4) an empty key
\* text fails with the configuration error
C18_KeyLoaderAsStated ==
    call.fn = "_load_vapid_private_key" =>
        /\ IsPem => call.result.step = "load_pem_private_key"
        /\ (~IsPem /\ IsUrlSafeSeed) => call.result = Loaded("derive_private_key", "")
        /\ (KeyText # <<>> /\ ~IsPem /\ Decoded.error = "" /\ Len(Decoded.bytes) # 32) =>
              call.result = Loaded("length", "ValueError")
        /\ KeyText = <<>> => call.result = Loaded("configured", "RuntimeError")

\* C18: as C18_KeyLoaderAsStated, with (2) for the seeds whose big-endian value
\* is at least 1 and below the order of the P-256 group
C18_KeyLoader ==
    call.fn = "_load_vapid_private_key" =>
        /\ IsPem => call.result.step = "load_pem_private_key"
        /\ (/\ ~IsPem /\ IsUrlSafeSeed
            /\ \E i \in 1..32 : Decoded.bytes[i] # 0
            /\ Below(Decoded.bytes, SECP256R1)) =>
              call.result = Loaded("derive_private_key", "")
        /\ (KeyText # <<>> /\ ~IsPem /\ Decoded.error = "" /\ Len(Decoded.bytes) # 32) =>
              call.result = Loaded("length", "ValueError")
        /\ KeyText = <<>> => call.result = Loaded("configured", "RuntimeError")

\* the loader was called with an unpadded URL-safe seed of value 1 and
\* returned a key
C18_Witness ==
    /\ call.fn = "_load_vapid_private_key"
    /\ call.arg[1] = Rep("A", 42) \o <<"E">>
    /\ call.result = Loaded("derive_private_key", "")

\* the host of an endpoint: of what urlparse takes for its netloc, the part
\* after the credentials and before the port
Host(endpoint) ==
    LET netloc == urlparse(endpoint).netloc
        at == Find(netloc, 1, {"@"})
        hostport == IF at <= Len(netloc) THEN SubSeq(netloc, at + 1, Len(netloc))
                    ELSE netloc
    IN  SubSeq(hostport, 1, Find(hostport, 1, {":"}) - 1)

\* C19: the assertion a direct call of the builder returns has the audience
\* scheme://host of the endpoint it was called with, without path, query, port
\* or credentials, and the expiry of the time of the call plus 43200 seconds
C19_VapidClaims ==
    (call.fn = "_create_vapid_jwt" /\ call.result.raises = "") =>
        /\ call.result.aud =
              urlparse(call.arg[1]).scheme \o <<":", "/", "/">> \o Host(call.arg[1])
        /\ call.result.exp = call.arg[2] + 43200

\* the subscriptions of the student key, and those of the admins
SubsOfStudent(key) == {i \in SubIds : subs[i].student_key = Some(key)}
SubsOfAdmins == {i \in SubIds : subs[i].admin_id # None}

\* the subscriptions a fan-out has sent to
Attempted(rec) == {rec.attempts[j].sub : j \in 1..Len(rec.attempts)}

\* C20: the student fan-out of a first answer loads exactly the subscriptions
\* of the suggestion's student_key, pushes to those only, and has sent to each
\* of them when its loop ends; the answer email goes out exactly when the
\* refreshed suggestion has a notification_email, to that address; the admin
\* fan-out of a creation loads, and sends to, exactly the subscriptions with an
\* admin_id
C20_RecipientSelection ==
    [][/\ \A rec \in InFlight : (rec.kind = "answer" /\ Moves(rec)) =>
            /\ \A nxt \in BagToSet(req') :
                 (Becomes(rec, nxt) /\ rec.pc = "fan" /\ nxt.pc = "fan_push") =>
                    /\ {nxt.list[j] : j \in 1..Len(nxt.list)} = SubsOfStudent(rec.s[1].student_key)
                    /\ Len(nxt.list) = Cardinality(SubsOfStudent(rec.s[1].student_key))
            /\ (rec.pc = "fan_push" /\ rec.idx > Len(rec.list)) =>
                 Attempted(rec) = SubsOfStudent(rec.s[1].student_key)
            /\ (rec.pc \in {"fan", "fan_push"} /\ response'.code = 200) =>
                 rec.s[1].notification_email = None
            /\ (rec.pc = "refresh" /\ rec.old_status # "answered" /\ response'.code = 200) =>
                 store[rec.id].notification_email = None
       /\ \A i \in SuggestionIds :
            /\ pushed'[i] # pushed[i] =>
                 \E rec \in InFlight, sub \in SubIds :
                    /\ rec.kind = "answer" /\ rec.id = i /\ rec.old_status # "answered"
                    /\ Moves(rec)
                    /\ sub \in SubsOfStudent(store[i].student_key) \ SubsOfAdmins
                    /\ pushed'[i] = Append(pushed[i], sub)
            /\ mailed'[i] # mailed[i] =>
                 \E rec \in InFlight :
                    /\ rec.kind = "answer" /\ rec.id = i /\ rec.old_status # "answered"
                    /\ Moves(rec)
                    /\ rec.s[1].notification_email # None
                    /\ mailed'[i] = Append(mailed[i], rec.s[1].notification_email[1])
            /\ adminPushed'[i] # adminPushed[i] =>
                 \E rec \in InFlight, sub \in SubsOfAdmins :
                    /\ rec.kind = "create" /\ rec.id = i /\ Moves(rec)
                    /\ adminPushed'[i] = Append(adminPushed[i], sub)
       /\ \A rec \in InFlight : (rec.kind = "create" /\ Moves(rec)) =>
            /\ \A nxt \in BagToSet(req') :
                 (Becomes(rec, nxt) /\ rec.pc = "bg" /\ nxt.pc = "bg_push") =>
                    /\ {nxt.list[j] : j \in 1..Len(nxt.list)} = SubsOfAdmins
                    /\ Len(nxt.list) = Cardinality(SubsOfAdmins)
            /\ (rec.pc = "bg_push" /\ rec.idx > Len(rec.list)) =>
                 Attempted(rec) = SubsOfAdmins]_vars

\* the email of a first answer is about to go out after a push to the one
\* subscription of the student, in a table that holds an admin's subscription too
C20_Witness ==
    \E rec \in InFlight :
        /\ rec.kind = "answer" /\ rec.pc = "email" /\ rec.old_status = "pending"
        /\ Len(rec.attempts) = 1
        /\ SubsOfAdmins # {}
        /\ pushed[rec.id] # <<>>

\* the place of a call of smtplib in the order of a session
SmtpRank(c) ==
    CASE c \in {"SMTP", "SMTP_SSL"} -> 1 [] c = "starttls" -> 2 [] c = "login" -> 3
      [] c = "send_message" -> 4

\* C21: in every SMTP session the connection is opened with SMTP_SSL exactly
\* when use_ssl is set and with SMTP otherwise; STARTTLS is issued only when
\* use_tls is set and use_ssl is not, login only when a username is configured,
\* and both are issued then in a session none of whose earlier calls raised;
\* the calls come in the order connect, STARTTLS, login, send, each at most once
C21_SmtpProtocol ==
    call.fn = "smtp_session" =>
        LET use_ssl == call.arg[1]
            use_tls == call.arg[2]
            username == call.arg[3]
            calls == call.result.calls
            Issued(c) == \E i \in 1..Len(calls) : calls[i] = c
        IN  /\ calls # <<>> /\ calls[1] = (IF use_ssl THEN "SMTP_SSL" ELSE "SMTP")
            /\ \A i, j \in 1..Len(calls) : i < j => SmtpRank(calls[i]) < SmtpRank(calls[j])
            /\ Issued("starttls") => (use_tls /\ ~use_ssl)
            /\ Issued("login") => username # ""
            /\ Issued("send_message") =>
                  /\ Issued("starttls") = (use_tls /\ ~use_ssl)
                  /\ Issued("login") = (username # "")
            /\ call.result.result = "True" => calls[Len(calls)] = "send_message"
            /\ call.arg[4] = "" => call.result.result = "True"

\* a session with use_ssl, use_tls and a username all set ran to its end:
\* SMTP_SSL, login, send_message, without STARTTLS
C21_Witness ==
    /\ call.fn = "smtp_session"
    /\ call.arg = <<TRUE, TRUE, "user", "">>
    /\ call.result = [calls |-> <<"SMTP_SSL", "login", "send_message">>, result |-> "True"]

\* C22 as stated: the base of the link is the configured public base URL when
\* that is not empty, otherwise the first entry of the configured origins that
\* is not empty, otherwise the local default; and the link is
\* <base>/me.html?sk=<student_key>&sid=<suggestion_id>
C22_BaseUrlAsStated ==
    call.fn = "send_answer_email" =>
        LET entries == SelectSeq(split(call.arg[2]), LAMBDA e : e # <<>>)
            base == IF call.arg[1] # <<>> THEN call.arg[1]
                    ELSE IF entries # <<>> THEN entries[1]
                    ELSE <<"h", "t", "t", "p", ":", "/", "/", "l", "o", "c", "a", "l", "h", "o", "s", "t", ":", "8", "0", "0", "0">>
        IN  /\ call.result.base = base
            /\ call.result.link = base \o <<"/", "m", "e", ".", "h", "t", "m", "l", "?", "s", "k", "=">> \o call.arg[3]
                                       \o <<"&", "s", "i", "d", "=">> \o str(call.arg[4])

\* C22: as C22_BaseUrlAsStated, with the public base URL and the entries of the
\* origins trimmed of surrounding whitespace before they are tested for
\* emptiness, the chosen one written without its trailing slashes, and the
\* student_key URL-encoded in the link
C22_BaseUrl ==
    call.fn = "send_answer_email" =>
        LET entries == SelectSeq(split(call.arg[2]), LAMBDA e : strip(e) # <<>>)
            base == IF strip(call.arg[1]) # <<>> THEN rstrip_slash(strip(call.arg[1]))
                    ELSE IF entries # <<>> THEN rstrip_slash(strip(entries[1]))
                    ELSE <<"h", "t", "t", "p", ":", "/", "/", "l", "o", "c", "a", "l", "h", "o", "s", "t", ":", "8", "0", "0", "0">>
        IN  /\ call.result.base = base
            /\ call.result.link = base \o <<"/", "m", "e", ".", "h", "t", "m", "l", "?", "s", "k", "=">>
                                       \o quote_plus_text(call.arg[3])
                                       \o <<"&", "s", "i", "d", "=">> \o str(call.arg[4])

\* a link was built with no public base URL and the origins " ,o/,p": its base
\* is the second entry without its slash, and its student_key is encoded
C22_Witness ==
    /\ call.fn = "send_answer_email"
    /\ call.arg = <<<<>>, <<" ", ",", "o", "/", ",", "p">>, <<"a", " ", "&", "=">>, 12>>
    /\ call.result.base = <<"o">>
    /\ call.result.link = <<"o", "/", "m", "e", ".", "h", "t", "m", "l", "?", "s", "k", "=", "a", "+", "%", "2", "6", "%", "3", "D", "&", "s", "i", "d", "=", "1", "2">>

\* C23: once a suggestion is answered, no step changes its title, content,
\* grade or notification_email, and no step of its owner's delete request
\* removes it, whatever the interleaving of the student's requests with the
\* answer
C23_NoStudentMutationAfterAnswer ==
    [][\A i \in SuggestionIds : Answered(i) =>
         /\ i \in DOMAIN store' =>
               /\ store'[i].title = store[i].title
               /\ store'[i].content = store[i].content
               /\ store'[i].grade = store[i].grade
               /\ store'[i].notification_email = store[i].notification_email
         /\ i \notin DOMAIN store' =>
               ~\E rec \in InFlight : rec.kind = "delete" /\ rec.id = i /\ Moves(rec)]_vars

\* C24: when every request has ended, an answered suggestion that has a
\* notification_email, which a set_notification_email request that returned
\* 200 has stored, has had exactly one answer email attempted
C24_SetEmailHonoured ==
    (req = EmptyBag /\ ~Responding) =>
        \A i \in SuggestionIds :
            (Answered(i) /\ store[i].notification_email # None) => Len(mailed[i]) = 1

\* the requests of a student on a suggestion
StudentOps == {"update", "email", "delete"}

\* the step answers at once a student request for suggestion i, which exists,
\* that carries another key than its owner's
RejectsForeign(i) ==
    /\ i \in DOMAIN store /\ Rejects(StudentOps, i)
    /\ response'.key # store[i].student_key

\* no request of another student is taken in for suggestion i, and every
\* change of the suggestion, its removal included, is a step of a request that
\* carries its owner's key or of an administrator's request
OnlyOwnerChanges(i) ==
    /\ \A nxt \in BagToSet(req') :
          (nxt.kind \in StudentOps /\ nxt.id = i /\ CopiesIn(nxt, req') > CopiesIn(nxt, req)) =>
              nxt.key = store[i].student_key
    /\ (i \notin DOMAIN store' \/ store'[i] # store[i]) =>
          \E rec \in InFlight :
              /\ Moves(rec) /\ rec.id = i
              /\ rec.key = store[i].student_key \/ rec.kind \in {"answer", "admin_delete"}

\* C25 as stated: a student request that passes validation and carries another
\* key than the owner's is answered 404, and leaves the suggestion as it is;
\* and only requests with the owner's key, or an administrator's, change a
\* suggestion or remove it
C25_OwnershipAsStated ==
    [][\A i \in DOMAIN store :
         /\ RejectsForeign(i) =>
               /\ store' = store
               /\ response'.code # 422 => response'.code = 404
         /\ OnlyOwnerChanges(i)]_vars

\* C25: as C25_OwnershipAsStated, but set_notification_email answers 503, not
\* 404, when email delivery is unconfigured; no other answer than 404, the 422
\* of the validation and that 503 is given
C25_Ownership ==
    [][\A i \in DOMAIN store :
         /\ RejectsForeign(i) =>
               /\ store' = store
               /\ response'.code \in {404, 422, 503}
               /\ response'.code = 422 => response'.kind \in {"update", "email"}
               /\ response'.code = 503 =>
                     /\ response'.kind = "email"
                     /\ settings.SMTP_HOST = "" \/ settings.SMTP_FROM_EMAIL = ""
               /\ (response'.kind = "email" /\ response'.code = 404) =>
                     (settings.SMTP_HOST # "" /\ settings.SMTP_FROM_EMAIL # "")
         /\ OnlyOwnerChanges(i)]_vars

\* another student's request for a pending suggestion has been answered 404
C25_Witness ==
    /\ response.kind \in StudentOps /\ response.code = 404
    /\ response.id \in DOMAIN store
    /\ store[response.id].status = "pending"
    /\ response.key # store[response.id].student_key

=============================================================================
